---- MODULE Spec2Model ----
(***************************************************************************)
(* Model of the testing package of aamm (src/aamm/_/testing/testsuite.py). *)
(*                                                                         *)
(* Spec: FakeTestSuite.run.  A caller holds a list of Test records and     *)
(* calls `run` on it repeatedly; between two calls it may take a fresh     *)
(* copy of the list (the records are shared) and other code may draw from  *)
(* the process-wide random generator.  Every call of a hook or of a test   *)
(* body is one step, with its outcome chosen by the environment.           *)
(*                                                                         *)
(* SpecPath: is_test_file and test_file, applied to a path on a file       *)
(* system.                                                                 *)
(*                                                                         *)
(* SpecSuite: the suites.  A program executes class statements, removes    *)
(* classes from the registry, and calls discover_tests, collect_tests,     *)
(* run_tests, main, and main of scripts/run_tests.py; an import is one     *)
(* step, the run of one suite is one step.                                 *)
(*                                                                         *)
(* SpecReport: tag and get_tags, main(root, seed) with its sorted report,  *)
(* main of scripts/run_tests.py with its test_condition, over three suites *)
(* whose test functions carry the decorators drawn at the start.           *)
(*                                                                         *)
(* SpecAsserts: assert_many of _/testing/asserts.py: contexts are opened   *)
(* and left, assertions fail inside and outside of them.                   *)
(*                                                                         *)
(* SpecLogger: Logger.separate and Logger.write of _/logging/logger.py on  *)
(* one stream.                                                             *)
(*                                                                         *)
(* SpecFrames: the frame the `except` handler of run reports, for a        *)
(* traceback and a test function name.                                     *)
(***************************************************************************)
EXTENDS Integers, Sequences, FiniteSets, TLC

\* ---------------------------------------------------------------- bounds
NumTests == 2      \* size of the batch handed to run
MaxOps == 3        \* number of operations on suites the program performs
MaxRuns == 2       \* number of run calls the caller makes
BodyCost == 1      \* time a test body takes
AfterCost == 1     \* time an after hook takes
Seeds == {0, 1}     \* the integer seeds the caller uses
RngMod == 4        \* number of states of the abstract random generator

\* ------------------------------------------------------------- constants
None == -1                        \* the unset test_duration
NoneStr == "None"                 \* the unset where / error_name / error_message

TestIds == 1..NumTests
Outcomes == {"ok", "exc", "base"} \* returns, raises an Exception, raises a BaseException
HookOutcomes == {"ok", "exc"}

\* A freshly collected Test record: only the result fields are modelled.
FreshTest == [test_duration |-> None, where |-> NoneStr,
              error_name |-> NoneStr, error_message |-> NoneStr]

\* The list in declaration order, as collect_tests builds it.
Declared == [i \in TestIds |-> i]

VARIABLES
    tests,      \* the caller's list of tests (run shuffles it in place)
    rec,        \* the Test records: result fields of each test
    rng,        \* state of the process-wide random generator
    pc,         \* position inside run, "idle" between calls
    idx,        \* position of the for loop in tests
    self,       \* the suite instance built by run (0: none)
    instances,  \* number of suite instances built by this call
    t,          \* the local t of run: time at which the body was started
    clock,      \* time.perf_counter(), counted from the start of the call
    exc,        \* the exception in flight in run ("none", or the call that raised it)
    runs,       \* number of calls of run that have ended
    input,      \* the list as it was handed to the current call
    seedOf,     \* <<seeded, seed>> of the current call
    trace,      \* calls made by the current call of run, in order
    durWrites,  \* per test: writes of test_duration by the current call
    bodyTime,   \* per test: time its body took in the current call
    recIn,      \* the Test records as they were when the current call started
    history,    \* seeded calls made so far: <<seed, list handed in, list as shuffled>>
    again       \* the current call repeats the seed and the list of an earlier call:
                \* "no", or "same" / "moved" as the generator is or is not in the
                \* state that earlier call left it in

runVars == <<tests, rec, rng, pc, idx, self, instances, t, clock, exc, runs,
             input, seedOf, trace, durWrites, bodyTime, recIn, history, again>>

\* The path functions, applied to one path on one file system.
VARIABLES
    path,       \* the path handed to is_test_file / test_file
    fsys,       \* the file system: the existing paths, each a file or a directory
    verdict,    \* what is_test_file(path) gave: "unset", "True", "False", "IndexError"
    mapped      \* what test_file(path) gave (<<>>: not applied)

pathVars == <<path, fsys, verdict, mapped>>

\* Suites: definition, registry, discovery, collection, the runs of batches.
VARIABLES
    classes,           \* the class statements executed so far, in order; the
                       \* position of a class is its identity
    registry,          \* test_suite_registry: the set of registered classes
    removed,           \* the classes taken out by registry.remove(cls)
    caller,            \* the operation in progress: "none", "discover_tests",
                       \* "collect_tests", "run_tests", "main" (testsuite.py) or
                       \* "script" (main of scripts/run_tests.py)
    phase,             \* its position: "idle", "discover", "collect", "run"
    todo,              \* discovery: the paths still to be visited
    imported,          \* discovery: the paths whose import was started
    discovery_errors,  \* discovery_errors of the script: <<path, exception>>
    found,             \* what discover_tests returned last: a set, and whether
                       \* it is the registry itself
    heap,              \* the Test records built so far
    passes,            \* per collection pass: its suites and the records it returned
    running,           \* run phase: the pass whose records are run (0: none)
    torun,             \* run phase: the suites still to be run
    ran,               \* the suites run (instantiated, hooks and bodies called)
                       \* by the operation in progress
    failure,           \* the exception that left the last operation ("none")
    ops                \* number of operations the program has started

suiteVars == <<classes, registry, removed, caller, phase, todo, imported,
               discovery_errors, found, heap, passes, running, torun, ran, failure, ops>>

\* Tags and reports: the suites of a program, main(root, seed), main of
\* scripts/run_tests.py and a filter over the collected tests.
VARIABLES
    decor,        \* per test function: the tag(...) decorators written on it
    namespace,    \* per suite: vars(cls), the names bound by the class body
    entry,        \* the operation asked for: "none", "main", "script", "filter"
    seedArg,      \* <<seeded, seed>> given to main
    cond,         \* the test_condition given to the script
    order,        \* the order in which the dictionary of collections is gone through
    pending,      \* the suites still to be run
    collections,  \* test_collections: per suite its list of Test records
    invoked,      \* <<hook or body, suite, test name>> of every call made
    started,      \* the suites on which run was called
    report,       \* what the operation gave back: its status and its list of tests
    selected,     \* the list a filter over collect_tests() gave
    finished      \* the program has performed its operation

reportVars == <<decor, namespace, entry, seedArg, cond, order, pending, collections,
                invoked, started, report, selected, finished>>

\* assert_many: the module globals of asserts.py and the contexts a test has
\* open.
VARIABLES
    throw,       \* _throw
    exceptions,  \* _exceptions: the AssertionErrors collected
    contexts,    \* the open assert_many contexts, outermost first; of each,
                 \* the failing assertions made directly in its body so far
    flying,      \* the exception in flight: its kind, the AssertionErrors it
                 \* is or holds, where it was raised and inside how many contexts
    made,        \* number of failing assertions made
    lastExit     \* of the last context left: how, what its body had collected,
                 \* what left it

assertVars == <<throw, exceptions, contexts, flying, made, lastExit>>

\* Logger: one logger on one stream.
VARIABLES
    enabled,       \* self.enabled
    sep_registry,  \* Logger.sep_registry[self.stream]
    out,           \* what was written to the stream: messages, and separators
                   \* by their multiplier
    calls,         \* number of calls made on the logger
    quiet,         \* separate was called and write was not called since
    lastCall       \* the last call: its arguments, whether it wrote to the stream,
                   \* and quiet as it was when the call was made

loggerVars == <<enabled, sep_registry, out, calls, quiet, lastCall>>

\* The failure location: a traceback and the test function it is searched for.
VARIABLES
    tb,        \* traceback.extract_tb(...): the frames, outermost first
    fname,     \* test.run.__name__
    located    \* the frame whose position is written to test.where (0: none yet)

frameVars == <<tb, fname, located>>

moreVars == <<reportVars, assertVars, loggerVars, frameVars>>

vars == <<runVars, pathVars, suiteVars, moreVars>>

\* ------------------------------------------------- the random generator
\* random is the standard library's generator; it is abstracted to a
\* deterministic generator over RngMod states.  One step of the generator.
RandStep(s) == (s + 1) % RngMod

\* State of the generator after random.seed(seed): a function of the seed
\* when one is given, the operating system's entropy when seed is None.
\* (SeedIgnored: the variant in which the generator is left as it is.)
SeedIgnored(seeded, seed, s, entropy) == s
SeedState(seeded, seed, s, entropy) == IF seeded THEN seed % RngMod ELSE entropy

Swap(x, i, j) == [x EXCEPT ![i] = x[j], ![j] = x[i]]
Overwrite(x, i, j) == [x EXCEPT ![i] = x[j]]

\* random.shuffle(x): for i from the last position down to the second, draw
\* j among the first i positions and exchange x[i] and x[j].
RECURSIVE ShuffleFrom(_, _, _)
ShuffleFrom(x, i, s) ==
    IF i < 2 THEN [list |-> x, state |-> s]
    ELSE LET s1 == RandStep(s)
             j == (s1 % i) + 1
         IN  ShuffleFrom(Swap(x, i, j), i - 1, s1)

\* (ShuffleDup: the variant that copies x[j] to x[i] instead of exchanging.)
RECURSIVE ShuffleLossy(_, _, _)
ShuffleLossy(x, i, s) ==
    IF i < 2 THEN [list |-> x, state |-> s]
    ELSE LET s1 == RandStep(s)
             j == (s1 % i) + 1
         IN  ShuffleLossy(Overwrite(x, i, j), i - 1, s1)

ShuffleDup(x, s) == ShuffleLossy(x, Len(x), s)
\* (ShuffleLocal: the variant that draws from a generator of its own and
\* leaves the module's generator in the state random.seed gave it.)
ShuffleLocal(x, s) == [list |-> ShuffleFrom(x, Len(x), s).list, state |-> s]
Shuffle(x, s) == ShuffleFrom(x, Len(x), s)

\* ------------------------------------------------------ control of run
\* `except Exception`: the handler takes an Exception, not a BaseException.
\* (CaughtNever: the variant without handler.)
CaughtNever(o) == FALSE
Caught(o) == o = "exc"

\* The inner `finally`: after() is the next call whatever the body did.
\* (AfterOnSuccess: the variant in which after() follows a returning body only.)
AfterOnSuccess(o) == IF o = "ok" THEN "after" ELSE IF o = "exc" THEN "record" ELSE "terminate"
AfterBody(o) == "after"

\* The outer `finally`: terminate() is called whether or not an exception
\* is leaving the loop.  (TerminateOnSuccess: the variant without `finally`.)
TerminateOnSuccess(e) == e = "none"
TerminateRuns(e) == TRUE

\* initialize() is called before the outer `try`: its exception leaves run
\* without passing through the `finally`.  (InitializeInTry: the variant with
\* the call inside the `try`.)
InitializeInTry == TRUE
InitializeGuarded == FALSE

\* The receiver of before, of the body and of after: the instance built once.
\* (FreshReceiver: the variant with a new instance for every call.)
FreshReceiver(inst, count) == inst + count + 1
Receiver(inst, count) == inst

\* Head of `for test in tests`: the next test, or the end of the loop.
LoopPc(i) == IF i <= Len(tests) THEN "before" ELSE "terminate"

Event(op, inst, test, res) == [op |-> op, inst |-> inst, test |-> test, res |-> res]

\* The tests whose body the current call invoked, in order of invocation.
RECURSIVE Executed(_)
Executed(tr) ==
    IF tr = <<>> THEN <<>>
    ELSE IF Head(tr).op = "body" THEN <<Head(tr).test>> \o Executed(Tail(tr))
         ELSE Executed(Tail(tr))

\* The lists a caller hands to run.
Batches == {"declared", "previous", "empty"}
Given(batch) ==
    CASE batch = "declared" -> Declared
      [] batch = "previous" -> tests
      [] batch = "empty" -> <<>>

\* run has no special case for an empty list: it starts with cls() (line
\* 136).  The variant goes straight to the clean-up when the list is empty.
SkipEmptyBatch(l) == IF l = <<>> THEN "terminate" ELSE "construct"
RunEntry(l) == "construct"

\* self.before() stands in the outer try only (line 142): when it raises,
\* control goes to the outer `finally`.  The variant puts it in the inner try.
BeforeInInnerTry == "after"
BeforeRaised == "terminate"

\* self.after() is the inner `finally` (line 164): when it raises, line 166
\* is skipped and control goes to the outer `finally`.  The variant writes
\* the duration all the same.
AfterRaisedRecords == "record"
AfterRaised == "terminate"

\* The call of run ends: control is back in the caller.
EndRun ==
    /\ pc' = "idle"
    /\ runs' = runs + 1

\* ------------------------------------------------------ path convention
\* A path is the sequence of its segments (path.split(SEP)); a segment is a
\* name and an extension: "mod.py" is [stem |-> "mod", ext |-> "py"] and a
\* directory name "pkg" is [stem |-> "pkg", ext |-> ""].  No name of the
\* model but "__tests" ends in "__tests".
Seg(stem, ext) == [stem |-> stem, ext |-> ext]
TEST_DIRECTORY_NAME == Seg("__tests", "")
InitFile == Seg("__init__", "py")

\* os.path.exists, os.path.isfile, os.path.isdir on the file system fs.
exists(fs, p) == \E e \in fs : e.path = p
is_file(fs, p) == [path |-> p, kind |-> "file"] \in fs
is_directory(fs, p) == [path |-> p, kind |-> "dir"] \in fs

leaf(p) == p[Len(p)]

\* fs.extension: "" for a directory, else what follows the last dot of the leaf.
extension(fs, p) == IF is_directory(fs, p) THEN "" ELSE leaf(p).ext

has_extension(fs, p, e) == extension(fs, p) = e

\* fs.remove_extension: path.removesuffix("." + extension(path)); with the
\* extension "" the suffix "." is not one of any name of the model.
remove_extension(fs, p) ==
    IF extension(fs, p) = "" THEN p
    ELSE [p EXCEPT ![Len(p)] = Seg(leaf(p).stem, "")]

\* fs.segment(path, -2): path.split(SEP)[-2].
segment(p, back) == p[Len(p) + 1 - back]

RemoveAt(p, k) == SubSeq(p, 1, k - 1) \o SubSeq(p, k + 1, Len(p))

\* right_replace(path, TEST_PATH_JOIN, ""): the rightmost "__tests/" is cut
\* out, that is the last "__tests" segment that is not the leaf; a path
\* without one is returned as it is.
right_replace(p) ==
    LET at == {k \in 1..(Len(p) - 1) : p[k] = TEST_DIRECTORY_NAME}
    IN  IF at = {} THEN p
        ELSE RemoveAt(p, CHOOSE k \in at : \A j \in at : j <= k)

module_path_of(p) == right_replace(p)
package_path_of(fs, p) == Append(remove_extension(fs, module_path_of(p)), InitFile)

\* `fs.exists(module_path) or fs.exists(package_path)`.
\* (ExactlyOne: the variant that wants one of the two and not the other.)
ExactlyOne(a, b) == a # b
Counterpart(a, b) == a \/ b

\* is_test_file(path), for a path of two segments or more.
is_test_file(fs, p) ==
    /\ is_file(fs, p)
    /\ has_extension(fs, p, "py")
    /\ segment(p, 2) = TEST_DIRECTORY_NAME
    /\ Counterpart(exists(fs, module_path_of(p)), exists(fs, package_path_of(fs, p)))

\* What a call is_test_file(path) gives: the tuple handed to all() is built
\* whole, so path.split(SEP)[-2] is evaluated whatever the other conditions
\* are, and raises IndexError on a path of one segment.
IsTestFileCall(fs, p) ==
    IF Len(p) < 2 THEN "IndexError"
    ELSE IF is_test_file(fs, p) THEN "True" ELSE "False"

\* test_file(source_path): the test file of a package's __init__.py is
\* named after the package and lies in the package's __tests; the test file
\* of a module lies in the __tests next to it, under the module's file name.
\* (TestFileAsModule: the variant that treats __init__.py as a module.)
TestFileAsModule(p) ==
    SubSeq(p, 1, Len(p) - 1) \o <<TEST_DIRECTORY_NAME, leaf(p)>>
test_file(p) ==
    LET dir == SubSeq(p, 1, Len(p) - 1)
    IN  IF leaf(p) = InitFile /\ dir # <<>>
        THEN dir \o <<TEST_DIRECTORY_NAME, Seg(leaf(dir).stem, "py")>>
        ELSE dir \o <<TEST_DIRECTORY_NAME, leaf(p)>>

\* The paths handed to the two functions.
Pkg == Seg("pkg", "")
Sub == Seg("sub", "")
ModPy == Seg("mod", "py")
SubPy == Seg("sub", "py")
TestPaths ==
    { <<Pkg, TEST_DIRECTORY_NAME, ModPy>>,
      <<Pkg, TEST_DIRECTORY_NAME, Seg("mod", "txt")>>,
      <<Pkg, Sub, ModPy>>,
      <<Pkg, TEST_DIRECTORY_NAME, Sub, ModPy>>,
      <<TEST_DIRECTORY_NAME, TEST_DIRECTORY_NAME, ModPy>>,
      <<TEST_DIRECTORY_NAME, ModPy>>,
      <<ModPy>> }
SourcePaths ==
    { <<Pkg, ModPy>>, <<Pkg, Sub, InitFile>>, <<Pkg, InitFile>>, <<Pkg, Sub, SubPy>> }

\* A file system around path p: p is absent, a file or a directory; the
\* module and the package __init__.py it stands for exist or do not.
Entry(p, kind) == [path |-> p, kind |-> kind]
FileSystems(p) ==
    LET m == module_path_of(p)
        own == {{}, {Entry(p, "file")}, {Entry(p, "dir")}}
        mods == IF m = p THEN {{}} ELSE {{}, {Entry(m, "file")}}
        WithPackage(fs) == {fs, fs \cup {Entry(package_path_of(fs, p), "file")}}
    IN  UNION { WithPackage(a \cup b) : a \in own, b \in mods }

\* -------------------------------------------------------------- suites
TEST_PREFIX == "test_"

\* A member of a class namespace: its name, split at the length of
\* TEST_PREFIX, and whether its value is callable.
Member(prefix, rest, isCallable) == [prefix |-> prefix, rest |-> rest, callable |-> isCallable]

\* The namespaces of the suites, in declaration order: a test, a helper and
\* a non-callable attribute; two tests.
NsOne == <<Member("test_", "a", TRUE), Member("setup", "", TRUE),
           Member("test_", "data", FALSE)>>
NsTwo == <<Member("test_", "c", TRUE), Member("test_", "b", TRUE)>>

\* The files of the tree under the root.
ModTest == <<Pkg, TEST_DIRECTORY_NAME, ModPy>>
SubTest == <<Pkg, TEST_DIRECTORY_NAME, SubPy>>
Orphan == <<Pkg, TEST_DIRECTORY_NAME, Seg("orphan", "py")>>
ToolPy == <<Pkg, Seg("tool", "py")>>
Missing == <<Pkg, TEST_DIRECTORY_NAME, Seg("tool", "py")>>
WorldFs ==
    { Entry(f, "file") :
        f \in {<<Pkg, ModPy>>, <<Pkg, Sub, InitFile>>, ToolPy, ModTest, SubTest, Orphan} }

\* The class statements of the tree: name, file of the statement, own
\* namespace and base (0: the base is testing.TestSuite itself).
ClassStatement(name, home, ns, base) == [name |-> name, home |-> home, ns |-> ns, base |-> base]
Decls ==
    << ClassStatement("A", ModTest, NsOne, 0),
       ClassStatement("TestSuite", SubTest, NsOne, 0),
       ClassStatement("B", SubTest, NsTwo, 1),
       ClassStatement("C", Orphan, NsOne, 0),
       ClassStatement("TestSuite", ToolPy, NsOne, 0) >>

\* The class statements a file executes when it is imported.
RECURSIVE StatementsOf(_, _)
StatementsOf(f, d) ==
    IF d > Len(Decls) THEN <<>>
    ELSE (IF Decls[d].home = f THEN <<d>> ELSE <<>>) \o StatementsOf(f, d + 1)

\* fs.search(root, "**/__tests/*.py") and metadata.test_files.
Search == <<ModTest, Orphan, SubTest>>
ScriptTestFiles == <<ModTest, Missing, SubTest>>

\* TestSuiteMeta.__init__ on class c made by statement d: the class named
\* "TestSuite" is left alone; a class in a file that is no test file raises
\* RuntimeError naming the class; any other class is added to the registry.
\* (MetaAddsFirst: the variant that adds before it validates; MetaNoSentinel:
\* the variant without the special case.)
MetaAddsFirst(reg, c, d) ==
    IF Decls[d].name = "TestSuite" THEN [registry |-> reg, error |-> ""]
    ELSE IF ~is_test_file(WorldFs, Decls[d].home)
         THEN [registry |-> reg \cup {c}, error |-> Decls[d].name]
         ELSE [registry |-> reg \cup {c}, error |-> ""]
MetaNoSentinel(reg, c, d) ==
    IF ~is_test_file(WorldFs, Decls[d].home)
    THEN [registry |-> reg, error |-> Decls[d].name]
    ELSE [registry |-> reg \cup {c}, error |-> ""]
TestSuiteMeta(reg, c, d) ==
    IF Decls[d].name = "TestSuite" THEN [registry |-> reg, error |-> ""]
    ELSE IF ~is_test_file(WorldFs, Decls[d].home)
         THEN [registry |-> reg, error |-> Decls[d].name]
         ELSE [registry |-> reg \cup {c}, error |-> ""]

\* A class as `classes` keeps it: its statement and the class the
\* RuntimeError of its definition names ("": the definition returned).
Class(d, error) == [decl |-> d, error |-> error]

\* The class statements ds executed in order on the classes cs and the
\* registry reg; a statement that raises ends the execution.
RECURSIVE Execute(_, _, _)
Execute(cs, reg, ds) ==
    IF ds = <<>> THEN [classes |-> cs, registry |-> reg, error |-> ""]
    ELSE LET c == Len(cs) + 1
             r == TestSuiteMeta(reg, c, Head(ds))
             cs1 == Append(cs, Class(Head(ds), r.error))
         IN  IF r.error # "" THEN [classes |-> cs1, registry |-> r.registry, error |-> r.error]
             ELSE Execute(cs1, r.registry, Tail(ds))

\* vars(cls): the own namespace of the class.  (WithInherited: the variant
\* that looks the members up along the bases, as dir(cls) does.)
RECURSIVE WithInherited(_)
WithInherited(d) ==
    (IF Decls[d].base = 0 THEN <<>> ELSE WithInherited(Decls[d].base)) \o Decls[d].ns
OwnMembers(d) == Decls[d].ns

RECURSIVE Select(_)
Select(ns) ==
    IF ns = <<>> THEN <<>>
    ELSE (IF Head(ns).callable /\ Head(ns).prefix = TEST_PREFIX THEN <<Head(ns)>> ELSE <<>>)
         \o Select(Tail(ns))

\* cls.collect_tests(): a Test per own callable member named test_*, in
\* the order of the namespace, its result fields unset.
Test(c, m) == [cls |-> c, test_name |-> m, result |-> "unset"]
TestsOf(c, d) == LET ms == Select(OwnMembers(d)) IN [k \in 1..Len(ms) |-> Test(c, ms[k])]

\* Test(...) builds a new record: the records of a pass are appended to the
\* heap.  (Cached: the variant that hands the records of an earlier pass
\* over the same class back.)  Both give <<heap, records of the class>>.
Cached(h, c, d) ==
    LET old == {r \in 1..Len(h) : h[r].cls = c}
    IN  IF old # {} THEN <<h, old>>
        ELSE <<h \o TestsOf(c, d), (Len(h) + 1)..(Len(h) + Len(TestsOf(c, d)))>>
Built(h, c, d) == <<h \o TestsOf(c, d), (Len(h) + 1)..(Len(h) + Len(TestsOf(c, d)))>>

\* collect_tests(test_suites): the suites of the set are collected one
\* after the other.  Gives <<heap, records of the pass>>.
Pass(S, recs) == [suites |-> S, recs |-> recs]
RECURSIVE CollectAll(_, _, _)
CollectAll(h, cs, S) ==
    IF S = {} THEN <<h, {}>>
    ELSE LET c == CHOOSE x \in S : \A y \in S : x <= y
             b == Built(h, c, cs[c].decl)
             rest == CollectAll(b[1], cs, S \ {c})
         IN  <<rest[1], b[2] \cup rest[2]>>

\* What collection does to the suites it goes through: it runs none.
\* (CollectInstantiates: the variant that builds an instance of each.)
CollectInstantiates(done, S) == done \cup S
CollectRuns(done, S) == done

\* test_suite_registry.copy().  (Alias: the variant that returns the set itself.)
Alias(reg) == [set |-> reg, alias |-> TRUE]
Copy(reg) == [set |-> reg, alias |-> FALSE]

\* The suites of a set in the order they are gone through.
RECURSIVE InOrder(_)
InOrder(S) ==
    IF S = {} THEN <<>>
    ELSE LET c == CHOOSE x \in S : \A y \in S : x <= y IN <<c>> \o InOrder(S \ {c})

\* `except Exception` around meta.import_path in the script.  (Unguarded:
\* the variant without try.)
Unguarded == FALSE
Guarded == TRUE

\* --------------------------------------------------------------- states
RunInit ==
    /\ tests = Declared
    /\ rec = [i \in TestIds |-> FreshTest]
    /\ rng \in 0..(RngMod - 1)
    /\ pc = "idle"
    /\ idx = 1
    /\ self = 0
    /\ instances = 0
    /\ t = None
    /\ clock = 0
    /\ exc = "none"
    /\ runs = 0
    /\ input = Declared
    /\ seedOf = <<FALSE, 0>>
    /\ trace = <<>>
    /\ durWrites = [i \in TestIds |-> 0]
    /\ bodyTime = [i \in TestIds |-> None]
    /\ recIn = [i \in TestIds |-> FreshTest]
    /\ history = {}
    /\ again = "no"

\* No path function is being applied.
PathIdle ==
    /\ path = <<>>
    /\ fsys = {}
    /\ verdict = "unset"
    /\ mapped = <<>>

\* Nothing is defined, registered or collected.
SuiteStart ==
    /\ classes = <<>>
    /\ registry = {}
    /\ removed = {}
    /\ caller = "none"
    /\ phase = "idle"
    /\ todo = <<>>
    /\ imported = {}
    /\ discovery_errors = {}
    /\ found = Copy({})
    /\ heap = <<>>
    /\ passes = <<>>
    /\ running = 0
    /\ torun = <<>>
    /\ ran = {}
    /\ failure = "none"
    /\ ops = 0

\* The program starts one more operation.
StartOp ==
    /\ caller = "none"
    /\ ops < MaxOps
    /\ ops' = ops + 1

\* No suite with tags is declared, no report is asked for.
ReportIdle ==
    /\ decor = <<>>
    /\ namespace = <<>>
    /\ entry = "none"
    /\ seedArg = <<FALSE, 0>>
    /\ cond = "all"
    /\ order = <<>>
    /\ pending = <<>>
    /\ collections = <<>>
    /\ invoked = {}
    /\ started = {}
    /\ report = [status |-> "none", tests |-> <<>>]
    /\ selected = <<>>
    /\ finished = FALSE

\* No assert_many context is open: the module is as it was imported.
NoException == [kind |-> "none", held |-> <<>>, site |-> "none", depth |-> 0]
NoExit == [how |-> "none", own |-> <<>>, raised |-> NoException]
AssertsIdle ==
    /\ throw = TRUE
    /\ exceptions = <<>>
    /\ contexts = <<>>
    /\ flying = NoException
    /\ made = 0
    /\ lastExit = NoExit

\* A logger was built on the stream and nothing was called on it.
NoCall == [op |-> "none", multiplier |-> 0, forced |-> "omitted", emitted |-> FALSE,
           quiet |-> FALSE]
LoggerIdle ==
    /\ enabled = TRUE
    /\ sep_registry = TRUE
    /\ out = <<>>
    /\ calls = 0
    /\ quiet = FALSE
    /\ lastCall = NoCall

\* No traceback is looked at.
FramesIdle ==
    /\ tb = <<>>
    /\ fname = ""
    /\ located = 0

MoreIdle == ReportIdle /\ AssertsIdle /\ LoggerIdle /\ FramesIdle

Init == RunInit /\ PathIdle /\ SuiteStart /\ MoreIdle

\* The caller hands run the list the previous call left, a fresh copy of the
\* declared list (the Test records are the same objects), or the empty list
\* of a suite without tests, and run starts: random.seed(seed);
\* random.shuffle(tests).  The callers of run catch nothing: a call that
\* raised is the caller's last.
StartRun(seeded, seed, entropy, batch) ==
    /\ pc = "idle"
    /\ exc = "none"
    /\ runs < MaxRuns
    /\ LET given == Given(batch)
           r == Shuffle(given, SeedState(seeded, seed, rng, entropy))
       IN  /\ input' = given
           /\ tests' = r.list
           /\ rng' = r.state
           /\ history' = IF seeded THEN history \cup {<<seed, given, r.list>>} ELSE history
           /\ again' = IF seeded /\ \E h \in history : h[1] = seed /\ h[2] = given
                       THEN IF rng = r.state THEN "same" ELSE "moved"
                       ELSE "no"
    /\ seedOf' = <<seeded, seed>>
    /\ recIn' = rec
    /\ pc' = RunEntry(Given(batch))
    /\ idx' = 1
    /\ self' = 0
    /\ instances' = 0
    /\ t' = None
    /\ clock' = 0
    /\ exc' = "none"
    /\ trace' = <<>>
    /\ durWrites' = [i \in TestIds |-> 0]
    /\ bodyTime' = [i \in TestIds |-> None]
    /\ UNCHANGED <<rec, runs>>
    /\ UNCHANGED <<pathVars, suiteVars, moreVars>>

\* self = cls()
Construct(o) ==
    /\ pc = "construct"
    /\ LET tr == Append(trace, Event("construct", instances + 1, 0, o))
       IN  /\ trace' = tr
           /\ instances' = instances + 1
           /\ IF o = "ok"
              THEN /\ self' = instances + 1
                   /\ pc' = "initialize"
                   /\ UNCHANGED <<exc, runs>>
              ELSE /\ exc' = "construct"
                   /\ EndRun
                   /\ UNCHANGED self
    /\ UNCHANGED <<tests, rec, rng, idx, t, clock, input, seedOf, durWrites, bodyTime,
                   recIn, history, again>>
    /\ UNCHANGED <<pathVars, suiteVars, moreVars>>

\* cls.initialize()
Initialize(o) ==
    /\ pc = "initialize"
    /\ LET tr == Append(trace, Event("initialize", 0, 0, o))
       IN  /\ trace' = tr
           /\ IF o = "ok"
              THEN /\ pc' = LoopPc(1)
                   /\ UNCHANGED <<exc, runs>>
              ELSE /\ exc' = "initialize"
                   /\ IF InitializeGuarded
                      THEN /\ pc' = "terminate"
                           /\ UNCHANGED runs
                      ELSE EndRun
    /\ UNCHANGED <<tests, rec, rng, idx, self, instances, t, clock, input, seedOf,
                   durWrites, bodyTime, recIn, history, again>>
    /\ UNCHANGED <<pathVars, suiteVars, moreVars>>

\* self.before()
Before(o) ==
    /\ pc = "before"
    /\ trace' = Append(trace, Event("before", Receiver(self, Len(trace)), tests[idx], o))
    /\ IF o = "ok"
       THEN /\ pc' = "body"
            /\ UNCHANGED exc
       ELSE /\ pc' = BeforeRaised
            /\ exc' = "before"
    /\ UNCHANGED <<tests, rec, rng, idx, self, instances, t, clock, runs, input, seedOf,
                   durWrites, bodyTime, recIn, history, again>>
    /\ UNCHANGED <<pathVars, suiteVars, moreVars>>

\* t = time.perf_counter(); test.run(self), and the handler of `except`.
Body(o, cost) ==
    /\ pc = "body"
    /\ t' = clock
    /\ clock' = clock + cost
    /\ trace' = Append(trace, Event("body", Receiver(self, Len(trace)), tests[idx], o))
    /\ bodyTime' = [bodyTime EXCEPT ![tests[idx]] = cost]
    /\ IF Caught(o)
       THEN /\ rec' = [rec EXCEPT ![tests[idx]].where = "line:col",
                                  ![tests[idx]].error_name = "AssertionError",
                                  ![tests[idx]].error_message = "message"]
            /\ UNCHANGED exc
       ELSE /\ exc' = IF o = "ok" THEN exc ELSE "body"
            /\ UNCHANGED rec
    /\ pc' = AfterBody(o)
    /\ UNCHANGED <<tests, rng, idx, self, instances, runs, input, seedOf, durWrites, recIn,
                   history, again>>
    /\ UNCHANGED <<pathVars, suiteVars, moreVars>>

\* self.after(), in the inner `finally`.
After(o, cost) ==
    /\ pc = "after"
    /\ clock' = clock + cost
    /\ trace' = Append(trace, Event("after", Receiver(self, Len(trace)), tests[idx], o))
    /\ IF o # "ok"
       THEN /\ exc' = "after"
            /\ pc' = AfterRaised
       ELSE /\ UNCHANGED exc
            /\ pc' = IF exc = "none" THEN "record" ELSE "terminate"
    /\ UNCHANGED <<tests, rec, rng, idx, self, instances, t, runs, input, seedOf,
                   durWrites, bodyTime, recIn, history, again>>
    /\ UNCHANGED <<pathVars, suiteVars, moreVars>>

\* test.test_duration = time.perf_counter() - t, and the next iteration.
Record ==
    /\ pc = "record"
    /\ rec' = [rec EXCEPT ![tests[idx]].test_duration = clock - t]
    /\ durWrites' = [durWrites EXCEPT ![tests[idx]] = @ + 1]
    /\ idx' = idx + 1
    /\ pc' = LoopPc(idx + 1)
    /\ UNCHANGED <<tests, rng, self, instances, t, clock, exc, runs, input, seedOf,
                   trace, bodyTime, recIn, history, again>>
    /\ UNCHANGED <<pathVars, suiteVars, moreVars>>

\* cls.terminate(), in the outer `finally`; then run returns or raises.
Terminate(o) ==
    /\ pc = "terminate"
    /\ LET called == TerminateRuns(exc)
           tr == IF called THEN Append(trace, Event("terminate", 0, 0, o)) ELSE trace
       IN  /\ called \/ o = "ok"
           /\ trace' = tr
           /\ exc' = IF called /\ o # "ok" THEN "terminate" ELSE exc
           /\ EndRun
    /\ UNCHANGED <<tests, rec, rng, idx, self, instances, t, clock, input, seedOf,
                   durWrites, bodyTime, recIn, history, again>>
    /\ UNCHANGED <<pathVars, suiteVars, moreVars>>

\* Between two calls other code draws from the process-wide generator.
OtherDraw ==
    /\ pc = "idle"
    /\ exc = "none"
    /\ runs < MaxRuns
    /\ rng' = RandStep(rng)
    /\ UNCHANGED <<tests, rec, pc, idx, self, instances, t, clock, exc, runs, input,
                   seedOf, trace, durWrites, bodyTime, recIn, history, again>>
    /\ UNCHANGED <<pathVars, suiteVars, moreVars>>

\* ---------------------------------------------- path convention, applied
\* A path and a file system around it are given.
InitPath ==
    /\ RunInit
    /\ rng = 0
    /\ path \in TestPaths \cup SourcePaths
    /\ fsys \in FileSystems(path)
    /\ verdict = "unset"
    /\ mapped = <<>>
    /\ SuiteStart
    /\ MoreIdle

\* is_test_file(path)
IsTestFile ==
    /\ path # <<>>
    /\ verdict = "unset"
    /\ verdict' = IsTestFileCall(fsys, path)
    /\ UNCHANGED <<runVars, suiteVars, moreVars, path, fsys, mapped>>

\* test_file(path)
TestFile ==
    /\ path # <<>>
    /\ mapped = <<>>
    /\ mapped' = test_file(path)
    /\ UNCHANGED <<runVars, suiteVars, moreVars, path, fsys, verdict>>

NextPath == IsTestFile \/ TestFile

SpecPath == InitPath /\ [][NextPath]_vars

\* --------------------------------------------------------------- suites
\* A class statement, executed outside discovery: `class X(TestSuite): ...`
DefineSuite(d) ==
    /\ StartOp
    /\ LET r == Execute(classes, registry, <<d>>)
       IN  /\ classes' = r.classes
           /\ registry' = r.registry
           /\ failure' = IF r.error # "" THEN "RuntimeError" ELSE "none"
    /\ UNCHANGED <<removed, caller, phase, todo, imported, discovery_errors, found,
                   heap, passes, running, torun, ran>>
    /\ UNCHANGED <<runVars, pathVars, moreVars>>

\* test_suite_registry.remove(cls)
Remove(c) ==
    /\ StartOp
    /\ c \in registry
    /\ registry' = registry \ {c}
    /\ removed' = removed \cup {c}
    /\ UNCHANGED <<classes, caller, phase, todo, imported, discovery_errors, found,
                   heap, passes, running, torun, ran, failure>>
    /\ UNCHANGED <<runVars, pathVars, moreVars>>

\* The caller of discover_tests takes a suite out of the set it was given.
DiscardFound(c) ==
    /\ StartOp
    /\ c \in found.set
    /\ found' = [found EXCEPT !.set = @ \ {c}]
    /\ registry' = IF found.alias THEN registry \ {c} ELSE registry
    /\ UNCHANGED <<classes, removed, caller, phase, todo, imported, discovery_errors,
                   heap, passes, running, torun, ran, failure>>
    /\ UNCHANGED <<runVars, pathVars, moreVars>>

\* discover_tests(root) is called, by the program or by main(root, seed).
StartDiscover(who) ==
    /\ StartOp
    /\ caller' = who
    /\ phase' = "discover"
    /\ todo' = Search
    /\ imported' = {}
    /\ ran' = {}
    /\ failure' = "none"
    /\ UNCHANGED <<classes, registry, removed, discovery_errors, found, heap, passes,
                   running, torun>>
    /\ UNCHANGED <<runVars, pathVars, moreVars>>

\* main() of scripts/run_tests.py is called.
StartScript ==
    /\ StartOp
    /\ caller' = "script"
    /\ phase' = "discover"
    /\ todo' = ScriptTestFiles
    /\ imported' = {}
    /\ discovery_errors' = {}
    /\ ran' = {}
    /\ failure' = "none"
    /\ UNCHANGED <<classes, registry, removed, found, heap, passes, running, torun>>
    /\ UNCHANGED <<runVars, pathVars, moreVars>>

\* One round of `for path in fs.search(...)`: a path that is a test file is
\* imported; the import executes the class statements of the file and
\* returns, or it raises in front of one of them (after k of them), and what
\* it raises leaves discover_tests.
DiscoverStep(k, fails) ==
    /\ caller \in {"discover_tests", "main"}
    /\ phase = "discover"
    /\ todo # <<>>
    /\ LET f == Head(todo)
           ds == StatementsOf(f, 1)
       IN  IF ~is_test_file(WorldFs, f)
           THEN /\ k = 0
                /\ ~fails
                /\ todo' = Tail(todo)
                /\ UNCHANGED <<classes, registry, imported, caller, phase, failure>>
           ELSE /\ k <= Len(ds)
                /\ fails <=> k < Len(ds)
                /\ LET r == Execute(classes, registry, SubSeq(ds, 1, k))
                   IN  /\ classes' = r.classes
                       /\ registry' = r.registry
                       /\ IF fails \/ r.error # ""
                          THEN /\ failure' = "import"
                               /\ caller' = "none"
                               /\ phase' = "idle"
                               /\ todo' = <<>>
                               /\ imported' = {}
                          ELSE /\ todo' = Tail(todo)
                               /\ imported' = imported \cup {f}
                               /\ UNCHANGED <<caller, phase, failure>>
    /\ UNCHANGED <<removed, discovery_errors, found, heap, passes, running, torun, ran>>
    /\ UNCHANGED <<ops, runVars, pathVars, moreVars>>

\* One round of `for path in metadata.test_files` of the script: the import
\* is in a try, and what it raises is kept in discovery_errors.
ScriptStep(k, fails) ==
    /\ caller = "script"
    /\ phase = "discover"
    /\ todo # <<>>
    /\ LET f == Head(todo)
           ds == StatementsOf(f, 1)
       IN  /\ k <= Len(ds)
           /\ exists(WorldFs, f) => (fails <=> k < Len(ds))
           /\ ~exists(WorldFs, f) => fails
           /\ LET r == Execute(classes, registry, SubSeq(ds, 1, k))
              IN  /\ classes' = r.classes
                  /\ registry' = r.registry
                  /\ imported' = imported \cup {f}
                  /\ IF fails \/ r.error # ""
                     THEN IF Guarded
                          THEN /\ discovery_errors' = discovery_errors \cup {<<f, "Exception">>}
                               /\ todo' = Tail(todo)
                               /\ UNCHANGED <<caller, phase, failure>>
                          ELSE /\ failure' = "import"
                               /\ caller' = "none"
                               /\ phase' = "idle"
                               /\ todo' = <<>>
                               /\ UNCHANGED discovery_errors
                     ELSE /\ todo' = Tail(todo)
                          /\ UNCHANGED <<caller, phase, failure, discovery_errors>>
    /\ UNCHANGED <<removed, found, heap, passes, running, torun, ran>>
    /\ UNCHANGED <<ops, runVars, pathVars, moreVars>>

\* The loop over the paths has ended: discover_tests returns a copy of the
\* registry, to the program or to main; the script goes on to the suites
\* of the registry.
Discovered ==
    /\ phase = "discover"
    /\ todo = <<>>
    /\ IF caller = "script"
       THEN /\ phase' = "run"
            /\ torun' = InOrder(registry)
            /\ running' = 0
            /\ UNCHANGED <<found, caller, imported>>
       ELSE /\ found' = Copy(registry)
            /\ phase' = IF caller = "main" THEN "collect" ELSE "idle"
            /\ caller' = IF caller = "main" THEN "main" ELSE "none"
            /\ imported' = IF caller = "main" THEN imported ELSE {}
            /\ UNCHANGED <<torun, running>>
    /\ UNCHANGED <<classes, registry, removed, todo, discovery_errors, heap,
                   passes, ran, failure>>
    /\ UNCHANGED <<ops, runVars, pathVars, moreVars>>

\* collect_tests(test_suites), called by the program on the registry (the
\* default) or on the set discover_tests returned.
CollectTests(S) ==
    /\ StartOp
    /\ LET r == CollectAll(heap, classes, S)
       IN  /\ heap' = r[1]
           /\ passes' = Append(passes, Pass(S, r[2]))
    /\ ran' = CollectRuns({}, S)
    /\ failure' = "none"
    /\ UNCHANGED <<classes, registry, removed, caller, phase, todo, imported,
                   discovery_errors, found, running, torun>>
    /\ UNCHANGED <<runVars, pathVars, moreVars>>

\* main: test_collections = collect_tests(test_suites)
MainCollect ==
    /\ caller = "main"
    /\ phase = "collect"
    /\ LET r == CollectAll(heap, classes, found.set)
       IN  /\ heap' = r[1]
           /\ passes' = Append(passes, Pass(found.set, r[2]))
    /\ ran' = CollectRuns(ran, found.set)
    /\ phase' = "run"
    /\ running' = Len(passes) + 1
    /\ torun' = InOrder(found.set)
    /\ UNCHANGED <<classes, registry, removed, caller, todo, imported, discovery_errors,
                   found, failure>>
    /\ UNCHANGED <<ops, runVars, pathVars, moreVars>>

\* run_tests(test_collections, seed), called by the program on a pass.
StartRunTests(k) ==
    /\ StartOp
    /\ k \in 1..Len(passes)
    /\ caller' = "run_tests"
    /\ phase' = "run"
    /\ running' = k
    /\ torun' = InOrder(passes[k].suites)
    /\ ran' = {}
    /\ failure' = "none"
    /\ UNCHANGED <<classes, registry, removed, todo, imported, discovery_errors, found,
                   heap, passes>>
    /\ UNCHANGED <<runVars, pathVars, moreVars>>

\* test_suite.run(...) on the next suite: it returns, the results written
\* on the records of the pass handed to it, or a hook raises and the
\* exception leaves run, run_tests and main, none of which catches it.
RunSuite(o) ==
    /\ phase = "run"
    /\ torun # <<>>
    /\ LET c == Head(torun)
       IN  /\ IF o = "exc"
              THEN /\ failure' = "run"
                   /\ caller' = "none"
                   /\ phase' = "idle"
                   /\ torun' = <<>>
                   /\ ran' = {}
                   /\ imported' = {}
                   /\ running' = 0
                   /\ UNCHANGED heap
              ELSE /\ torun' = Tail(torun)
                   /\ ran' = ran \cup {c}
                   /\ UNCHANGED <<imported, running>>
                   /\ heap' = [r \in 1..Len(heap) |->
                                 IF running > 0 /\ r \in passes[running].recs /\ heap[r].cls = c
                                 THEN [heap[r] EXCEPT !.result = "written"]
                                 ELSE heap[r]]
                   /\ UNCHANGED <<failure, caller, phase>>
    /\ UNCHANGED <<classes, registry, removed, todo, discovery_errors, found, passes>>
    /\ UNCHANGED <<ops, runVars, pathVars, moreVars>>

\* Every suite was run: run_tests, main and the script return.
RunReturn ==
    /\ phase = "run"
    /\ torun = <<>>
    /\ caller' = "none"
    /\ phase' = "idle"
    /\ running' = 0
    /\ ran' = {}
    /\ imported' = {}
    /\ UNCHANGED <<classes, registry, removed, todo, discovery_errors, found, heap,
                   passes, torun, failure>>
    /\ UNCHANGED <<ops, runVars, pathVars, moreVars>>

NextSuite ==
    \/ \E d \in 1..Len(Decls) : DefineSuite(d)
    \/ \E c \in registry : Remove(c)
    \/ \E c \in found.set : DiscardFound(c)
    \/ \E who \in {"discover_tests", "main"} : StartDiscover(who)
    \/ StartScript
    \/ \E k \in 0..Len(Decls), fails \in BOOLEAN : DiscoverStep(k, fails)
    \/ \E k \in 0..Len(Decls), fails \in BOOLEAN : ScriptStep(k, fails)
    \/ Discovered
    \/ \E S \in {registry, found.set} : CollectTests(S)
    \/ MainCollect
    \/ \E k \in 1..Len(passes) : StartRunTests(k)
    \/ \E o \in HookOutcomes : RunSuite(o)
    \/ RunReturn

InitSuite == Init /\ rng = 0

SpecSuite == InitSuite /\ [][NextSuite]_vars

Next ==
    \/ \E seed \in Seeds, batch \in Batches : StartRun(TRUE, seed, 0, batch)
    \/ \E entropy \in 0..(RngMod - 1), batch \in Batches : StartRun(FALSE, 0, entropy, batch)
    \/ \E o \in HookOutcomes : Construct(o)
    \/ \E o \in HookOutcomes : Initialize(o)
    \/ \E o \in HookOutcomes : Before(o)
    \/ \E o \in Outcomes : Body(o, BodyCost)
    \/ \E o \in HookOutcomes : After(o, AfterCost)
    \/ Record
    \/ \E o \in HookOutcomes : Terminate(o)
    \/ OtherDraw

Spec == Init /\ [][Next]_vars

TypeOK ==
    /\ pc \in {"idle", "construct", "initialize", "before", "body", "after",
               "record", "terminate"}
    /\ runs \in 0..MaxRuns
    /\ rng \in 0..(RngMod - 1)

\* ------------------------------------------------------ tags and reports
\* The strings of the model in the order in which Python compares them.
NamesAscending == <<"Alpha", "Beta", "a.py", "b.py", "test_1", "test_2", "test_3">>
StrLt(a, b) ==
    \E i \in 1..Len(NamesAscending), j \in 1..Len(NamesAscending) :
        NamesAscending[i] = a /\ NamesAscending[j] = b /\ i < j

\* a < b on tuples of strings of one length.
TupleLt(a, b) ==
    \E k \in 1..Len(a) : (\A j \in 1..(k - 1) : a[j] = b[j]) /\ StrLt(a[k], b[k])

TAGS_ATTRIBUTE == "testing-tags"

\* A function object: callable, with a __dict__ of <<attribute, value>>
\* pairs; None is not callable.
Function(id) == [callable |-> TRUE, id |-> id, dict |-> {}]
NoneValue == [callable |-> FALSE, id |-> <<>>, dict |-> {}]

FrozenSet(tuple) == {tuple[k] : k \in 1..Len(tuple)}
SetAttr(f, attr, value) ==
    [f EXCEPT !.dict = {p \in @ : p[1] # attr} \cup {<<attr, value>>}]
GetAttr(f, attr, default) ==
    LET hits == {p \in f.dict : p[1] = attr}
    IN  IF hits = {} THEN default ELSE (CHOOSE p \in hits : TRUE)[2]

\* tag(*tags)(test): setattr(test, TAGS_ATTRIBUTE, frozenset(tags)); return
\* test.  (TagMerges: the variant that adds the labels to those the function
\* carries.)
TagMerges(tags, test) ==
    SetAttr(test, TAGS_ATTRIBUTE, GetAttr(test, TAGS_ATTRIBUTE, {}) \cup FrozenSet(tags))
tag(tags, test) == SetAttr(test, TAGS_ATTRIBUTE, FrozenSet(tags))

\* get_tags(test): test.run.__dict__.get(TAGS_ATTRIBUTE, frozenset())
get_tags(test) == GetAttr(test.run, TAGS_ATTRIBUTE, {})

\* The decorators written on a function, the one next to `def` first, are
\* applied in that order.
RECURSIVE Decorated(_, _)
Decorated(f, ds) ==
    IF ds = <<>> THEN f ELSE Decorated(tag(Head(ds), f), Tail(ds))

\* What is written on one test function: nothing, one decorator with two
\* labels, one decorator naming a label twice, two decorators.
Decorations ==
    {<<>>, << <<"Skip", ":(">> >>, << <<"A", "A">> >>, << <<"B">>, <<"Skip">> >>}

\* The suites of the program: the file and the name of each class, and the
\* test functions of its body in the order they are written.
ReportSuites ==
    << [module_path |-> "b.py", suite_name |-> "Alpha", names |-> <<"test_2", "test_1">>],
       [module_path |-> "a.py", suite_name |-> "Beta", names |-> <<"test_3">>],
       [module_path |-> "a.py", suite_name |-> "Alpha", names |-> <<>>] >>
SuiteIds == 1..Len(ReportSuites)
FunctionIds == UNION {{<<c, k>> : k \in 1..Len(ReportSuites[c].names)} : c \in SuiteIds}

\* The class body is executed: every `def` under its decorators binds its
\* name to what the outermost decorator returned.
ClassBody(c, dec) ==
    [k \in 1..Len(ReportSuites[c].names) |->
        [name |-> ReportSuites[c].names[k],
         value |-> Decorated(Function(<<c, k>>), dec[<<c, k>>])]]

\* cls.collect_tests(): a Test record for every callable of vars(cls) whose
\* name starts with TEST_PREFIX (every name of ReportSuites does), in the
\* order of vars(cls); the result fields are unset.
TestRecord(c, e) ==
    [suite |-> c, module_path |-> ReportSuites[c].module_path,
     suite_name |-> ReportSuites[c].suite_name, test_name |-> e.name,
     run |-> e.value, executed |-> FALSE]
CollectSuite(ns, c) ==
    LET callables == SelectSeq(ns[c], LAMBDA e : e.value.callable)
    IN  [k \in 1..Len(callables) |-> TestRecord(c, callables[k])]

\* Test.__lt__
TestLt(a, b) ==
    TupleLt(<<a.module_path, a.suite_name, a.test_name>>,
            <<b.module_path, b.suite_name, b.test_name>>)

\* sorted(l): stable, by __lt__ alone.  (Unsorted: the variant that returns
\* the list as it is.)
RECURSIVE InsertSorted(_, _)
InsertSorted(x, l) ==
    IF l = <<>> THEN <<x>>
    ELSE IF TestLt(x, Head(l)) THEN <<x>> \o l
         ELSE <<Head(l)>> \o InsertSorted(x, Tail(l))
RECURSIVE SortFrom(_, _)
SortFrom(acc, l) == IF l = <<>> THEN acc ELSE SortFrom(InsertSorted(Head(l), acc), Tail(l))
Unsorted(l) == l
sorted(l) == SortFrom(<<>>, l)

\* chain.from_iterable(test_collections.values())
RECURSIVE Chain(_, _)
Chain(colls, keys) ==
    IF keys = <<>> THEN <<>> ELSE colls[Head(keys)] \o Chain(colls, Tail(keys))

\* The orders in which a set of suites can be gone through.
Orders(S) ==
    {o \in [1..Cardinality(S) -> S] : \A i, j \in 1..Cardinality(S) : i # j => o[i] # o[j]}

\* The script goes through the suites by module path, then by name.
SuiteLt(a, b) ==
    TupleLt(<<ReportSuites[a].module_path, ReportSuites[a].suite_name>>,
            <<ReportSuites[b].module_path, ReportSuites[b].suite_name>>)
ScriptOrder ==
    CHOOSE o \in Orders(SuiteIds) : \A i, j \in SuiteIds : i < j => SuiteLt(o[i], o[j])

\* The test conditions a caller passes: every test, the tests without the
\* label "Skip", the tests without labels, the tests with two labels or more.
Conditions == {"all", "no_skip", "tagless", "multi"}
Holds(c, labels) ==
    CASE c = "all" -> TRUE
      [] c = "no_skip" -> "Skip" \notin labels
      [] c = "tagless" -> labels = {}
      [] c = "multi" -> Cardinality(labels) > 1
Satisfies(c, test) == Holds(c, get_tags(test))

\* [t for t in tests if test_condition(t)]
Filtered(l, c) == SelectSeq(l, LAMBDA x : Satisfies(c, x))

\* run(test_condition) of the script's TestSuite: the tests the condition
\* rejects are left out before anything is run.  (AcceptAll: the variant that
\* runs every test.)
AcceptAll(l, c) == l
Accepted(l, c) == Filtered(l, c)

\* run on a list: every test of it gets before, body and after, and its
\* results are written on its record.
CallsOf(l) ==
    {<<op, l[k].suite, l[k].test_name>> : op \in {"before", "body", "after"}, k \in 1..Len(l)}
Results(l) == [k \in 1..Len(l) |-> [l[k] EXCEPT !.executed = TRUE]]

\* What the hooks of one suite do: both return, initialize raises (no test
\* is run), terminate raises (every test was run).
SuiteOutcomes == {"ok", "initialize", "terminate"}

\* run_tests has no try around test_suite.run: what a hook raises leaves
\* run_tests and main.
RunTestsCatches == FALSE

\* The program is loaded: its class bodies were executed.
InitReport ==
    /\ RunInit
    /\ rng = 0
    /\ PathIdle
    /\ SuiteStart
    /\ AssertsIdle
    /\ LoggerIdle
    /\ FramesIdle
    /\ decor \in [FunctionIds -> Decorations]
    /\ namespace = [c \in SuiteIds |-> ClassBody(c, decor)]
    /\ entry = "none"
    /\ seedArg = <<FALSE, 0>>
    /\ cond = "all"
    /\ order = <<>>
    /\ pending = <<>>
    /\ collections = <<>>
    /\ invoked = {}
    /\ started = {}
    /\ report = [status |-> "none", tests |-> <<>>]
    /\ selected = <<>>
    /\ finished = FALSE

\* main(root, seed): discover_tests returns the registry, collect_tests
\* builds the dictionary, whose order is the order of the set.
StartMain(seeded, seed, o) ==
    /\ entry = "none"
    /\ ~finished
    /\ entry' = "main"
    /\ seedArg' = <<seeded, seed>>
    /\ order' = o
    /\ pending' = o
    /\ collections' = [c \in SuiteIds |-> CollectSuite(namespace, c)]
    /\ UNCHANGED <<decor, namespace, cond, invoked, started, report, selected, finished>>
    /\ UNCHANGED <<runVars, pathVars, suiteVars, assertVars, loggerVars, frameVars>>

\* run_tests: test_suite.run(tests, seed) on the next suite of the dictionary.
RunTestsStep(o, entropy) ==
    /\ entry = "main"
    /\ ~finished
    /\ pending # <<>>
    /\ LET c == Head(pending)
           l == Shuffle(collections[c], SeedState(seedArg[1], seedArg[2], 0, entropy)).list
       IN  /\ started' = started \cup {c}
           /\ collections' = [collections EXCEPT ![c] = IF o = "initialize" THEN l ELSE Results(l)]
           /\ invoked' = invoked \cup (IF o = "initialize" THEN {} ELSE CallsOf(l))
           /\ IF o = "ok" \/ RunTestsCatches
              THEN /\ pending' = Tail(pending)
                   /\ UNCHANGED <<entry, report, finished>>
              ELSE /\ pending' = <<>>
                   /\ report' = [status |-> "raised", tests |-> <<>>]
                   /\ finished' = TRUE
                   /\ UNCHANGED entry
    /\ UNCHANGED <<decor, namespace, seedArg, cond, order, selected>>
    /\ UNCHANGED <<runVars, pathVars, suiteVars, assertVars, loggerVars, frameVars>>

\* main: return sorted(chain.from_iterable(test_collections.values()))
MainReturn ==
    /\ entry = "main"
    /\ ~finished
    /\ pending = <<>>
    /\ report' = [status |-> "returned", tests |-> sorted(Chain(collections, order))]
    /\ finished' = TRUE
    /\ UNCHANGED <<decor, namespace, entry, seedArg, cond, order, pending, collections,
                   invoked, started, selected>>
    /\ UNCHANGED <<runVars, pathVars, suiteVars, assertVars, loggerVars, frameVars>>

\* main(test_condition) of scripts/run_tests.py, after its imports.
StartScriptMain(c) ==
    /\ entry = "none"
    /\ ~finished
    /\ entry' = "script"
    /\ cond' = c
    /\ order' = ScriptOrder
    /\ pending' = ScriptOrder
    /\ report' = [status |-> "running", tests |-> <<>>]
    /\ UNCHANGED <<decor, namespace, seedArg, collections, invoked, started, selected,
                   finished>>
    /\ UNCHANGED <<runVars, pathVars, suiteVars, assertVars, loggerVars, frameVars>>

\* for test in test_suite.run(test_condition): tests.append(test)
ScriptRunStep(o, entropy) ==
    /\ entry = "script"
    /\ ~finished
    /\ pending # <<>>
    /\ LET c == Head(pending)
           given == Accepted(CollectSuite(namespace, c), cond)
           l == Shuffle(given, entropy).list
       IN  /\ started' = started \cup {c}
           /\ invoked' = invoked \cup (IF o = "initialize" THEN {} ELSE CallsOf(l))
           /\ IF o = "ok"
              THEN /\ pending' = Tail(pending)
                   /\ report' = [report EXCEPT !.tests = @ \o Results(l)]
                   /\ UNCHANGED <<entry, finished>>
              ELSE /\ pending' = <<>>
                   /\ report' = [status |-> "raised", tests |-> <<>>]
                   /\ finished' = TRUE
                   /\ UNCHANGED entry
    /\ UNCHANGED <<decor, namespace, seedArg, cond, order, collections, selected>>
    /\ UNCHANGED <<runVars, pathVars, suiteVars, assertVars, loggerVars, frameVars>>

\* The loop over the suites has ended: `tests` is the script's list.
ScriptReturn ==
    /\ entry = "script"
    /\ ~finished
    /\ pending = <<>>
    /\ report' = [report EXCEPT !.status = "returned"]
    /\ finished' = TRUE
    /\ UNCHANGED <<decor, namespace, entry, seedArg, cond, order, pending, collections,
                   invoked, started, selected>>
    /\ UNCHANGED <<runVars, pathVars, suiteVars, assertVars, loggerVars, frameVars>>

\* _, tests = cls.collect_tests(); [t for t in tests if condition(get_tags(t))]
FilterCollected(c, k) ==
    /\ entry = "none"
    /\ ~finished
    /\ entry' = "filter"
    /\ cond' = k
    /\ started' = {c}
    /\ selected' = Filtered(CollectSuite(namespace, c), k)
    /\ report' = [status |-> "filtered", tests |-> <<>>]
    /\ finished' = TRUE
    /\ UNCHANGED <<decor, namespace, seedArg, order, pending, collections, invoked>>
    /\ UNCHANGED <<runVars, pathVars, suiteVars, assertVars, loggerVars, frameVars>>

NextReport ==
    \/ \E seed \in Seeds, o \in Orders(SuiteIds) : StartMain(TRUE, seed, o)
    \/ \E o \in Orders(SuiteIds) : StartMain(FALSE, 0, o)
    \/ \E o \in SuiteOutcomes, entropy \in 0..(RngMod - 1) : RunTestsStep(o, entropy)
    \/ MainReturn
    \/ \E c \in Conditions : StartScriptMain(c)
    \/ \E o \in SuiteOutcomes, entropy \in 0..(RngMod - 1) : ScriptRunStep(o, entropy)
    \/ ScriptReturn
    \/ \E c \in SuiteIds, k \in Conditions : FilterCollected(c, k)

SpecReport == InitReport /\ [][NextReport]_vars

\* ------------------------------------------------------------ assert_many
MaxDepth == 2      \* assert_many contexts open at a time
MaxAsserts == 3    \* failing assertions a test makes

Raised(kind, held, site, depth) == [kind |-> kind, held |-> held, site |-> site, depth |-> depth]

\* What the body of assert_many raises after `yield` returned: nothing, the
\* one collected AssertionError, or an ExceptionGroup (which keeps the
\* exceptions as a tuple of its own).
AtEnd(collected, depth) ==
    IF Len(collected) = 1 THEN Raised("AssertionError", <<collected[1]>>, "exit", depth)
    ELSE IF Len(collected) > 1 THEN Raised("ExceptionGroup", collected, "exit", depth)
    ELSE NoException

Pop(l) == SubSeq(l, 1, Len(l) - 1)

\* with assert_many(): the generator runs to `yield`: _throw = False.
EnterAssertMany ==
    /\ flying = NoException
    /\ Len(contexts) < MaxDepth
    /\ throw' = FALSE
    /\ contexts' = Append(contexts, <<>>)
    /\ UNCHANGED <<exceptions, flying, made, lastExit>>
    /\ UNCHANGED <<runVars, pathVars, suiteVars, reportVars, loggerVars, frameVars>>

\* _assertion(False, msg): the AssertionError is raised, or appended to
\* _exceptions when _throw is False.
FailingAssertion ==
    /\ flying = NoException
    /\ made < MaxAsserts
    /\ made' = made + 1
    /\ IF throw
       THEN /\ flying' = Raised("AssertionError", <<made + 1>>, "call", Len(contexts))
            /\ UNCHANGED <<exceptions, contexts>>
       ELSE /\ exceptions' = Append(exceptions, made + 1)
            /\ contexts' = [contexts EXCEPT ![Len(contexts)] = Append(@, made + 1)]
            /\ UNCHANGED flying
    /\ UNCHANGED <<throw, lastExit>>
    /\ UNCHANGED <<runVars, pathVars, suiteVars, reportVars, loggerVars, frameVars>>

\* The body of the innermost context ends: the generator goes on behind
\* `yield`, raises what AtEnd says, and its `finally` resets the globals.
BodyEnds ==
    /\ flying = NoException
    /\ contexts # <<>>
    /\ flying' = AtEnd(exceptions, Len(contexts) - 1)
    /\ lastExit' = [how |-> "end", own |-> contexts[Len(contexts)],
                    raised |-> AtEnd(exceptions, Len(contexts) - 1)]
    /\ throw' = TRUE
    /\ exceptions' = <<>>
    /\ contexts' = Pop(contexts)
    /\ UNCHANGED made
    /\ UNCHANGED <<runVars, pathVars, suiteVars, reportVars, loggerVars, frameVars>>

\* The body of the innermost context raises something else.
BodyRaises ==
    /\ flying = NoException
    /\ contexts # <<>>
    /\ flying' = Raised("Other", <<>>, "call", Len(contexts))
    /\ UNCHANGED <<throw, exceptions, contexts, made, lastExit>>
    /\ UNCHANGED <<runVars, pathVars, suiteVars, reportVars, loggerVars, frameVars>>

\* The exception in flight leaves the innermost context: it is thrown into
\* the generator at `yield`, and the `finally` resets the globals.
Unwind ==
    /\ flying # NoException
    /\ contexts # <<>>
    /\ lastExit' = [how |-> "raise", own |-> contexts[Len(contexts)], raised |-> flying]
    /\ throw' = TRUE
    /\ exceptions' = <<>>
    /\ contexts' = Pop(contexts)
    /\ UNCHANGED <<flying, made>>
    /\ UNCHANGED <<runVars, pathVars, suiteVars, reportVars, loggerVars, frameVars>>

\* A handler takes the exception in flight (exception_context, the `except`
\* of run).
Handle ==
    /\ flying # NoException
    /\ flying' = NoException
    /\ UNCHANGED <<throw, exceptions, contexts, made, lastExit>>
    /\ UNCHANGED <<runVars, pathVars, suiteVars, reportVars, loggerVars, frameVars>>

NextAsserts ==
    \/ EnterAssertMany
    \/ FailingAssertion
    \/ BodyEnds
    \/ BodyRaises
    \/ Unwind
    \/ Handle

\* asserts.py was imported.
InitAsserts == Init /\ rng = 0

SpecAsserts == InitAsserts /\ [][NextAsserts]_vars

\* ----------------------------------------------------------------- Logger
MaxCalls == 4      \* calls made on the logger

\* The multipliers and the values of `forced` a caller passes to separate.
Multipliers == {1, 2, 4}
ForcedArgs == {"omitted", "true", "false"}

\* def separate(self, multiplier: int = 2, forced: bool = True)
ForcedDefault == TRUE
Forced(arg) == IF arg = "omitted" THEN ForcedDefault ELSE arg = "true"

\* What goes to the stream in one write: a message, or multiplier * END.
Chunk(kind, n) == [kind |-> kind, ends |-> n]

\* write(*values, end=...) with the default flush: when the logger is
\* enabled the stream is marked as written to and the message goes to the
\* stream.  Gives <<sep_registry, out>>.
WriteTo(en, reg, o, chunk) == IF en THEN <<TRUE, Append(o, chunk)>> ELSE <<reg, o>>

\* Logger(stream, enabled): sep_registry.setdefault(stream, True)
InitLogger ==
    /\ RunInit
    /\ rng = 0
    /\ PathIdle
    /\ SuiteStart
    /\ ReportIdle
    /\ AssertsIdle
    /\ FramesIdle
    /\ enabled \in BOOLEAN
    /\ sep_registry = TRUE
    /\ out = <<>>
    /\ calls = 0
    /\ quiet = FALSE
    /\ lastCall = NoCall

\* logger.write(message)
LoggerWrite ==
    /\ calls < MaxCalls
    /\ calls' = calls + 1
    /\ LET w == WriteTo(enabled, sep_registry, out, Chunk("message", 0))
       IN  /\ sep_registry' = w[1]
           /\ out' = w[2]
           /\ lastCall' = [op |-> "write", multiplier |-> 0, forced |-> "omitted",
                           emitted |-> w[2] # out, quiet |-> quiet]
    /\ quiet' = FALSE
    /\ UNCHANGED enabled
    /\ UNCHANGED <<runVars, pathVars, suiteVars, reportVars, assertVars, frameVars>>

\* logger.separate(multiplier[, forced=...])
LoggerSeparate(multiplier, arg) ==
    /\ calls < MaxCalls
    /\ calls' = calls + 1
    /\ IF sep_registry \/ Forced(arg)
       THEN LET w == WriteTo(enabled, sep_registry, out, Chunk("separator", multiplier))
            IN  /\ out' = w[2]
                /\ sep_registry' = FALSE
       ELSE UNCHANGED <<out, sep_registry>>
    /\ lastCall' = [op |-> "separate", multiplier |-> multiplier, forced |-> arg,
                    emitted |-> out' # out, quiet |-> quiet]
    /\ quiet' = TRUE
    /\ UNCHANGED enabled
    /\ UNCHANGED <<runVars, pathVars, suiteVars, reportVars, assertVars, frameVars>>

NextLogger ==
    \/ LoggerWrite
    \/ \E multiplier \in Multipliers, arg \in ForcedArgs : LoggerSeparate(multiplier, arg)

SpecLogger == InitLogger /\ [][NextLogger]_vars

\* ------------------------------------------------------- failure location
MaxFrames == 4     \* frames of a traceback

\* A FrameSummary: the name of the function and the line it was at.
Frame(name, lineno) == [name |-> name, lineno |-> lineno]

\* The names of the functions below run in a traceback, and the names a test
\* function can have (test.run.__name__).
FrameNames == {"test_a", "wrapper", "helper"}
TestNames == {"test_a", "wrapper", "run"}

\* The tracebacks of an exception caught in run: the frame of run itself,
\* then the frames of what it called, outermost first.
Tracebacks ==
    UNION {{[k \in 1..n |-> Frame(IF k = 1 THEN "run" ELSE names[k], k)] :
               names \in [1..n -> FrameNames]} : n \in 1..MaxFrames}

\* for summary in stack: if summary.name == test.run.__name__: break
\* else: summary = stack[-1].  Gives the position of summary in stack.
\* (InnermostNamed: the variant that goes through the frames innermost first.)
RECURSIVE InnermostNamed(_, _, _)
InnermostNamed(stack, name, k) ==
    IF Len(stack) - k + 1 < 1 THEN Len(stack)
    ELSE IF stack[Len(stack) - k + 1].name = name THEN Len(stack) - k + 1
         ELSE InnermostNamed(stack, name, k + 1)
RECURSIVE FirstNamed(_, _, _)
FirstNamed(stack, name, k) ==
    IF k > Len(stack) THEN Len(stack)
    ELSE IF stack[k].name = name THEN k
         ELSE FirstNamed(stack, name, k + 1)

\* A test body raised: the traceback and the name of the test function.
InitFrames ==
    /\ RunInit
    /\ rng = 0
    /\ PathIdle
    /\ SuiteStart
    /\ ReportIdle
    /\ AssertsIdle
    /\ LoggerIdle
    /\ tb \in Tracebacks
    /\ fname \in TestNames
    /\ located = 0

\* The `except` handler of run chooses the frame it reports.
Locate ==
    /\ tb # <<>>
    /\ located = 0
    /\ located' = FirstNamed(tb, fname, 1)
    /\ UNCHANGED <<tb, fname>>
    /\ UNCHANGED <<runVars, pathVars, suiteVars, reportVars, assertVars, loggerVars>>

NextFrames == Locate

SpecFrames == InitFrames /\ [][NextFrames]_vars

\* ------------------------------------------------------------ properties
IsPrefix(a, b) == Len(a) <= Len(b) /\ \A k \in 1..Len(a) : a[k] = b[k]
Count(l, x) == Cardinality({k \in 1..Len(l) : l[k] = x})
IsPerm(a, b) == Len(a) = Len(b) /\ \A x \in TestIds : Count(a, x) = Count(b, x)

\* The current call has ended; it returned normally; it raised.
Ended == pc = "idle" /\ runs > 0
Returned == Ended /\ exc = "none"
Propagated == Ended /\ exc # "none"

Calls(tr) == [k \in 1..Len(tr) |-> <<tr[k].op, tr[k].test>>]
Events(op) == {k \in 1..Len(trace) : trace[k].op = op}
EventsOf(op, i) == {k \in 1..Len(trace) : trace[k].op = op /\ trace[k].test = i}
Raising(op) == {k \in Events(op) : trace[k].res # "ok"}

\* No hook (and no constructor) raised so far; no body raised a BaseException.
HooksClean == \A k \in 1..Len(trace) : trace[k].op # "body" => trace[k].res = "ok"
BodiesExc == \A k \in Events("body") : trace[k].res \in {"ok", "exc"}

RECURSIVE Loop(_)
Loop(l) ==
    IF l = <<>> THEN <<>>
    ELSE <<(<<"before", Head(l)>>), (<<"body", Head(l)>>), (<<"after", Head(l)>>)>> \o Loop(Tail(l))
Expected(l) ==
    <<(<<"construct", 0>>), (<<"initialize", 0>>)>> \o Loop(l) \o <<(<<"terminate", 0>>)>>

HasFailure(r) == r.where # NoneStr /\ r.error_name # NoneStr /\ r.error_message # NoneStr
NoFailure(r) == r.where = NoneStr /\ r.error_name = NoneStr /\ r.error_message = NoneStr

\* C1: when no hook raises and bodies raise only Exceptions, the calls of one
\* run are initialize, then before, body, after for each test in execution
\* order (after also when the body raised), then terminate, and run returns
\* normally.
C1_HookTrace ==
    (HooksClean /\ BodiesExc) =>
        /\ IsPrefix(Calls(trace), Expected(tests))
        /\ Ended => (exc = "none" /\ Calls(trace) = Expected(tests))

C1_Witness ==
    /\ Returned
    /\ Len(tests) = NumTests
    /\ trace[4].res = "exc"
    /\ \A k \in Events("body") : k > 4 => trace[k].res = "ok"

C3_TerminateOnce ==
    /\ Cardinality(Events("terminate")) <= 1
    /\ \A k \in Events("terminate") : k = Len(trace) /\ pc = "idle"
    /\ (Ended /\ Events("initialize") # {} /\ Raising("initialize") = {}) =>
           Cardinality(Events("terminate")) = 1
    /\ Raising("initialize") # {} => Events("terminate") = {}
    /\ Events("initialize") = {} => Events("terminate") = {}

C3_Witness ==
    /\ Propagated
    /\ exc = "before"
    /\ Len(Executed(trace)) = 1
    /\ trace[Len(trace)].op = "terminate"

\* C4: when initialize raises, run propagates the exception, calls no
\* before, body, after or terminate, and writes no duration or failure field.
C4_InitializeFatal ==
    Raising("initialize") # {} =>
        /\ Propagated
        /\ exc = "initialize"
        /\ Events("before") \cup Events("body") \cup Events("after")
               \cup Events("terminate") = {}
        /\ rec = recIn
        /\ \A i \in TestIds : durWrites[i] = 0

C4_Witness ==
    /\ Propagated
    /\ exc = "initialize"
    /\ runs > 1
    /\ \E i \in TestIds : HasFailure(rec[i])

C7_DurationExcludesAfter ==
    \A i \in TestIds :
        /\ EventsOf("after", i) # {} => durWrites[i] = 1
        /\ durWrites[i] = 1 => rec[i].test_duration = bodyTime[i]

\* C8: two calls of run with the same non-None seed on lists in the same
\* initial order execute the tests in the same order, whatever was drawn
\* from the generator and whatever other calls were made in between.
C8_SeedDeterminesOrder ==
    /\ \A a \in history : \A b \in history :
           (a[1] = b[1] /\ a[2] = b[2]) => a[3] = b[3]
    /\ (pc # "idle" \/ runs > 0) =>
           /\ seedOf[1] => <<seedOf[2], input, tests>> \in history
           /\ IsPrefix(Executed(trace), tests)

C8_Witness ==
    /\ Returned
    /\ again = "moved"
    /\ Executed(trace) = tests

\* C9: run executes one permutation of its input: when it returns normally
\* every test was invoked exactly once, none added or dropped, and the
\* caller's list holds the tests in the order of execution.
C9_OnePermutation ==
    /\ IsPerm(tests, input)
    /\ IsPrefix(Executed(trace), tests)
    /\ Returned =>
           /\ Executed(trace) = tests
           /\ \A n \in 1..Len(tests) : Cardinality(EventsOf("body", tests[n])) = 1

C9_Witness ==
    /\ Returned
    /\ tests # input
    /\ Executed(trace) = tests
    /\ tests[1] # 1

\* C10: one call of run builds the suite instance exactly once, before
\* initialize, and that instance is the receiver of every before, body and
\* after of the batch.
C10_SingleInstance ==
    /\ Cardinality(Events("construct")) <= 1
    /\ instances <= 1
    /\ \A k \in Events("initialize") : Events("construct") = {1} /\ k = 2
    /\ \A k \in Events("before") \cup Events("body") \cup Events("after") :
           /\ trace[1].op = "construct"
           /\ trace[k].inst = trace[1].inst
           /\ trace[k].inst = self

C10_Witness ==
    /\ Returned
    /\ runs > 1
    /\ Cardinality(Events("construct")) = 1
    /\ \A k \in Events("body") : trace[k].inst = 1

\* C11 (as stated): run leaves the process-wide generator untouched: its
\* state after the call starts and shuffles equals its state before the call.
C11_GlobalStateUntouched ==
    [][(pc = "idle" /\ pc' # "idle") => rng' = rng]_vars

\* C11 (amended): run seeds and shuffles with the process-wide generator:
\* from the shuffle of a call with a non-None seed on, the generator is in
\* the state that random.seed(seed) followed by the shuffle's draws leaves,
\* whatever its state was before the call, and no later step of the call
\* moves it.
C11_GlobalStateReseeded ==
    /\ [](pc # "idle" /\ seedOf[1] =>
             rng = ShuffleFrom(input, Len(input), seedOf[2] % RngMod).state)
    /\ [][pc # "idle" => rng' = rng]_vars

C11_Witness ==
    /\ pc = "terminate"
    /\ again = "moved"
    /\ rng = ShuffleFrom(input, Len(input), seedOf[2] % RngMod).state

\* The conditions of the claims on is_test_file, on the path and the file
\* system of the call: the path is a file named *.py directly under a
\* __tests directory; its two candidates are the path without that __tests
\* segment and __init__.py under that path taken without extension.
Stripped == RemoveAt(path, Len(path) - 1)
ModuleCandidate == exists(fsys, Stripped)
PackageCandidate ==
    exists(fsys, Append([Stripped EXCEPT ![Len(Stripped)] = Seg(leaf(Stripped).stem, "")],
                        InitFile))
WellPlaced ==
    /\ Len(path) >= 2
    /\ is_file(fsys, path)
    /\ leaf(path).ext = "py"
    /\ path[Len(path) - 1] = TEST_DIRECTORY_NAME

\* C15 (as stated): is_test_file(path) is true exactly when path is a file,
\* has the py extension, lies directly in a directory named __tests and
\* precisely one of its two candidates exists.
C15_ExactlyOneCandidate ==
    verdict # "unset" =>
        (verdict = "True" <=>
            WellPlaced /\ ModuleCandidate # PackageCandidate)

\* C15 (amended): is_test_file(path) is true exactly when path is a file,
\* has the py extension, lies directly in a directory named __tests and at
\* least one of its two candidates exists, both existing included; it
\* raises IndexError on a path of a single segment and is false otherwise.
C15_SomeCandidate ==
    verdict # "unset" =>
        /\ verdict = "True" <=>
               WellPlaced /\ (ModuleCandidate \/ PackageCandidate)
        /\ verdict = "IndexError" <=> Len(path) < 2
        /\ verdict \in {"True", "False", "IndexError"}

C15_Witness ==
    /\ verdict = "True"
    /\ ModuleCandidate
    /\ PackageCandidate

\* C16: test_file maps a module file <dir>/<filename> to
\* <dir>/__tests/<filename> and a package file <package_dir>/__init__.py to
\* <package_dir>/__tests/<package_dir_name>.py: pkg/mod.py to
\* pkg/__tests/mod.py and pkg/sub/__init__.py to pkg/sub/__tests/sub.py.
C16_TestFileMapping ==
    mapped # <<>> =>
        LET n == Len(path)
        IN  /\ Len(mapped) = n + 1
            /\ SubSeq(mapped, 1, n - 1) = SubSeq(path, 1, n - 1)
            /\ mapped[n] = TEST_DIRECTORY_NAME
            /\ mapped[n + 1] = IF path[n] = InitFile
                               THEN Seg(path[n - 1].stem, "py")
                               ELSE path[n]
            /\ path = <<Pkg, ModPy>> => mapped = <<Pkg, TEST_DIRECTORY_NAME, ModPy>>
            /\ path = <<Pkg, Sub, InitFile>> =>
                   mapped = <<Pkg, Sub, TEST_DIRECTORY_NAME, SubPy>>

C16_Witness ==
    /\ path = <<Pkg, Sub, InitFile>>
    /\ mapped = <<Pkg, Sub, TEST_DIRECTORY_NAME, Seg("sub", "py")>>

\* ------------------------------------------------- properties of suites
AllClasses == 1..Len(classes)
NameOf(c) == Decls[classes[c].decl].name
HomeOf(c) == Decls[classes[c].decl].home
ValidHome(c) == is_test_file(WorldFs, HomeOf(c))
NewClasses == (Len(classes) + 1)..Len(classes')

\* C12 (as stated): the definition of a suite type in a file that is no
\* test file fails with an error naming the type, and the type is not
\* registered.
C12_InvalidFileFails ==
    \A c \in AllClasses :
        ~ValidHome(c) => classes[c].error = NameOf(c) /\ c \notin registry

\* C12 (amended): the definition of a suite type not named TestSuite in a
\* file that is no test file fails with an error naming the type; a type
\* named TestSuite is defined without error in any file; a class whose
\* definition failed is not in the registry, and the failed definition took
\* no class out of it.
C12_InvalidFileFailsUnlessSentinel ==
    /\ \A c \in AllClasses :
           /\ (~ValidHome(c) /\ NameOf(c) # "TestSuite") => classes[c].error = NameOf(c)
           /\ NameOf(c) = "TestSuite" => classes[c].error = ""
           /\ classes[c].error # "" => c \notin registry
    /\ \A c \in AllClasses : \A b \in 1..(c - 1) :
           (classes[c].error # "" /\ classes[b].error = "" /\ NameOf(b) # "TestSuite"
            /\ b \notin removed) => b \in registry

C12_Witness ==
    \E c \in AllClasses :
        /\ ~ValidHome(c)
        /\ classes[c].error = NameOf(c)
        /\ \E b \in registry : b < c

\* C13: a class named TestSuite is never in the registry; every other
\* class defined in a valid test file is in the registry from the end of
\* its class statement on, until it is removed.
C13_SentinelNeverRegistered ==
    \A c \in AllClasses :
        /\ NameOf(c) = "TestSuite" => c \notin registry
        /\ (NameOf(c) # "TestSuite" /\ ValidHome(c) /\ c \notin removed) => c \in registry

C13_Witness ==
    /\ \E c \in AllClasses : NameOf(c) = "TestSuite" /\ ValidHome(c) /\ c \notin registry
    /\ \E c \in AllClasses : NameOf(c) # "TestSuite" /\ c \in registry

\* C14: whatever is defined, discovered, collected or run, a class that
\* was registered is in the registry unless it was taken out by an explicit
\* remove; discover_tests returns a set of its own, and what its caller
\* takes out of that set stays in the registry.
C14_RegistryAdditive ==
    /\ registry \cap removed = {}
    /\ \A c \in AllClasses :
           (classes[c].error = "" /\ NameOf(c) # "TestSuite" /\ c \notin removed) =>
               c \in registry
    /\ \A c \in found.set \cup UNION {passes[k].suites : k \in 1..Len(passes)} :
           c \in registry \/ c \in removed

C14_Witness ==
    /\ caller = "none"
    /\ \E c \in registry, d \in found.set : c < d /\ c \notin found.set

\* The records a pass returned for a class, and the own members of the
\* class that are callable and named test_*, by position in the namespace.
RecordsOf(k, c) == {r \in passes[k].recs : heap[r].cls = c}
TestMembers(c) ==
    LET ns == Decls[classes[c].decl].ns
    IN  {i \in 1..Len(ns) : ns[i].callable /\ ns[i].prefix = "test_"}
Rank(x, S) == Cardinality({y \in S : y <= x})

\* C17: collection of a suite returns one record per own callable member
\* named test_*, in declaration order, and no other record.
C17_OwnTestsInOrder ==
    \A k \in 1..Len(passes) : \A c \in passes[k].suites :
        LET ns == Decls[classes[c].decl].ns
            recs == RecordsOf(k, c)
            own == TestMembers(c)
        IN  /\ Cardinality(recs) = Cardinality(own)
            /\ \A r \in recs : \E i \in own :
                   /\ heap[r].test_name = ns[i]
                   /\ Rank(r, recs) = Rank(i, own)

C17_Witness ==
    \E k \in 1..Len(passes) : \E c \in passes[k].suites :
        /\ NameOf(c) = "B"
        /\ Cardinality(RecordsOf(k, c)) = 2
        /\ \E a \in passes[k].suites : Cardinality(TestMembers(a)) = 1

\* C18: a collection pass runs no suite (no instance, no hook, no body),
\* writes no result and leaves the classes and the registry as they are.
C18_CollectionStructural ==
    [][Len(passes') > Len(passes) =>
          /\ ran' = {}
          /\ registry' = registry
          /\ classes' = classes
          /\ SubSeq(heap', 1, Len(heap)) = heap]_vars

C18_Witness ==
    /\ Len(passes) = 2
    /\ passes[2].recs # {}
    /\ ran = {}
    /\ registry = passes[2].suites
    /\ \A r \in passes[2].recs : heap[r].result = "unset"

\* C19: every pass returns records of its own, built with unset results:
\* no record belongs to two passes, and a run writes on the records of the
\* pass handed to it and on no other.
C19_FreshRecords ==
    /\ [](\A i \in 1..Len(passes) : \A j \in 1..Len(passes) :
            i # j => passes[i].recs \cap passes[j].recs = {})
    /\ [][/\ Len(passes') > Len(passes) =>
                \A r \in passes'[Len(passes')].recs : heap'[r].result = "unset"
          /\ \A r \in 1..Len(heap) :
                heap'[r] # heap[r] => running > 0 /\ r \in passes[running].recs]_vars

C19_Witness ==
    /\ Len(passes) = 2
    /\ \E a \in passes[1].recs : \E b \in passes[2].recs :
           /\ heap[a].cls = heap[b].cls
           /\ heap[a].test_name = heap[b].test_name
           /\ heap[a].result = "written"
           /\ heap[b].result = "unset"

\* The paths an operation imports: the test files of the search, or the
\* paths of metadata.test_files.
Candidates ==
    IF caller = "script" THEN {ScriptTestFiles[i] : i \in 1..Len(ScriptTestFiles)}
    ELSE {f \in {Search[i] : i \in 1..Len(Search)} : is_test_file(WorldFs, f)}

\* C20: an import that fails during discovery does not end the operation:
\* the exception does not leave discovery or main, every candidate path is
\* imported, and the suites of the registry are run.
C20_ImportFailureContained ==
    /\ failure # "import"
    /\ (caller \in {"main", "script"} /\ phase = "run") =>
           /\ Candidates \subseteq imported
           /\ torun = <<>> => registry \subseteq ran

\* The same of main of scripts/run_tests.py alone, with its table: a path
\* whose import raised is in discovery_errors, the loop goes on to the next
\* path, and no import failure leaves the script.
ScriptKeepsDiscoveryErrors ==
    /\ [](caller = "script" =>
            /\ failure = "none"
            /\ \A f \in imported : ~exists(WorldFs, f) => <<f, "Exception">> \in discovery_errors
            /\ \A e \in discovery_errors : e[1] \in imported
            /\ phase = "run" =>
                  /\ Candidates \subseteq imported
                  /\ torun = <<>> => registry \subseteq ran)
    /\ [][(caller = "script" /\ phase = "discover" /\ todo # <<>>) =>
            /\ caller' = "script"
            /\ todo' = Tail(todo)
            /\ \/ <<Head(todo), "Exception">> \in discovery_errors'
               \/ Len(classes') = Len(classes) + Len(StatementsOf(Head(todo), 1))]_vars

\* The position in the executed list of the test a raising hook was called for.
PosOf(i) == CHOOSE k \in 1..Len(tests) : tests[k] = i
Unchanged(i) == rec[i] = recIn[i] /\ durWrites[i] = 0

\* C28: when before() raises for a test, the body and after() of that test
\* are not invoked, no later test is started, terminate is called exactly
\* once and an exception leaves run (the one of before() when terminate
\* returned); the records of that test and of the tests behind it are as they
\* were when run was called, and the tests in front of it keep the results
\* this run wrote.
C28_BeforeRaises ==
    \A k \in Raising("before") :
        LET i == trace[k].test
        IN  /\ EventsOf("body", i) = {} /\ EventsOf("after", i) = {}
            /\ \A j \in 1..Len(trace) : j > k => trace[j].op = "terminate"
            /\ \A n \in PosOf(i)..Len(tests) : Unchanged(tests[n])
            /\ \A n \in 1..(PosOf(i) - 1) :
                   /\ durWrites[tests[n]] = 1
                   /\ rec[tests[n]].test_duration # None
                   /\ \A b \in EventsOf("body", tests[n]) :
                          trace[b].res = "exc" => HasFailure(rec[tests[n]])
            /\ Ended =>
                   /\ Cardinality(Events("terminate")) = 1
                   /\ exc \in {"before", "terminate"}
                   /\ Raising("terminate") = {} => exc = "before"

C28_Witness ==
    /\ Propagated
    /\ exc = "before"
    /\ Raising("before") # {}
    /\ Len(Executed(trace)) = 1
    /\ trace[4].res = "exc"
    /\ runs > 1
    /\ \E i \in TestIds : EventsOf("body", i) = {} /\ rec[i].test_duration # None

\* C29: when after() raises for a test, no later test is started, terminate
\* is called exactly once and an exception leaves run; the duration of that
\* test is not written although its body ran, and its failure fields are
\* written when the body had raised an Exception.
C29_AfterRaises ==
    \A k \in Raising("after") :
        LET i == trace[k].test
        IN  /\ EventsOf("body", i) # {}
            /\ \A j \in 1..Len(trace) : j > k => trace[j].op = "terminate"
            /\ durWrites[i] = 0
            /\ rec[i].test_duration = recIn[i].test_duration
            /\ \A b \in EventsOf("body", i) : trace[b].res = "exc" => HasFailure(rec[i])
            /\ \A n \in (PosOf(i) + 1)..Len(tests) : Unchanged(tests[n])
            /\ Ended =>
                   /\ Cardinality(Events("terminate")) = 1
                   /\ exc \in {"after", "terminate"}
                   /\ Raising("terminate") = {} => exc = "after"

C29_Witness ==
    /\ Propagated
    /\ exc = "after"
    /\ runs = 1
    /\ \E k \in Raising("after") :
           /\ rec[trace[k].test].test_duration = None
           /\ HasFailure(rec[trace[k].test])
           /\ k = 5

\* C30: run on an empty list builds the suite instance and, when the
\* constructor and the hooks return, calls initialize and terminate exactly
\* once each and returns; no before, body or after is called in between.
C30_EmptyBatch ==
    (input = <<>> /\ (pc # "idle" \/ runs > 0)) =>
        /\ Events("before") \cup Events("body") \cup Events("after") = {}
        /\ pc \notin {"before", "body", "after", "record"}
        /\ HooksClean =>
               /\ IsPrefix(Calls(trace), Expected(<<>>))
               /\ trace # <<>> => trace[1].inst = 1
               /\ Ended => (exc = "none" /\ Calls(trace) = Expected(<<>>))

C30_Witness ==
    /\ Returned
    /\ input = <<>>
    /\ runs > 1
    /\ Calls(trace) = Expected(<<>>)
    /\ \E i \in TestIds : rec[i].test_duration # None

\* --------------------------------------- properties of tags and reports
\* The records collect_tests gives for a suite, and for all suites.
Collected(c) == CollectSuite(namespace, c)
RecordsIn(l) == {l[k] : k \in 1..Len(l)}
AllCollected == UNION {RecordsIn(Collected(c)) : c \in SuiteIds}
CallsFor(x) == {<<op, x.suite, x.test_name>> : op \in {"before", "body", "after"}}
Reported(x) == {k \in 1..Len(report.tests) :
                   report.tests[k].suite = x.suite /\ report.tests[k].test_name = x.test_name}

Ascending ==
    LET all == RecordsIn(Results(Chain([c \in SuiteIds |-> Collected(c)], ScriptOrder)))
    IN  [k \in 1..Cardinality(all) |->
            CHOOSE x \in all : Cardinality({y \in all : TestLt(y, x)}) = k - 1]

\* C22: the list main returns holds the executed Test records of all suites
\* of the registry, each once, in ascending order of (module_path,
\* suite_name, test_name); it is the same list for every seed and every
\* order of execution.
C22_SortedReport ==
    (entry = "main" /\ report.status = "returned") =>
        /\ report.tests = Ascending
        /\ \A i, j \in 1..Len(report.tests) : i < j => TestLt(report.tests[i], report.tests[j])
        /\ \A k \in 1..Len(report.tests) :
               /\ report.tests[k].executed
               /\ CallsFor(report.tests[k]) \subseteq invoked
        /\ \A x \in AllCollected : Cardinality(Reported(x)) = 1
        /\ Len(report.tests) = Cardinality(AllCollected)

C22_Witness ==
    /\ entry = "main"
    /\ report.status = "returned"
    /\ seedArg[1]
    /\ order # ScriptOrder
    /\ Chain(collections, order) # report.tests
    /\ collections[1][1].test_name = "test_1"
    /\ Len(report.tests) = 3

\* C23 as stated: when main has ended, also because a hook of one suite
\* raised, run was called on every suite of the registry and the tests of
\* the suites whose hooks returned are reported.
C23_HookFailureContained ==
    (entry = "main" /\ finished) =>
        /\ started = SuiteIds
        /\ \A x \in AllCollected :
               CallsFor(x) \subseteq invoked => Cardinality(Reported(x)) = 1

\* The labels written on a function: those of its outermost decorator.
LabelsOf(dec) == IF dec = <<>> THEN {} ELSE FrozenSet(dec[Len(dec)])

\* C24: a decorated function is collected as the function itself, its tags
\* are the set of the labels given to tag and the empty set when it was not
\* decorated, and a filter over the collected tests selects, in their order,
\* exactly the tests whose labels satisfy the condition.
C24_TagsSelect ==
    /\ \A c \in SuiteIds :
           /\ Len(Collected(c)) = Len(ReportSuites[c].names)
           /\ \A k \in 1..Len(Collected(c)) :
                  /\ Collected(c)[k].test_name = ReportSuites[c].names[k]
                  /\ Collected(c)[k].run.id = <<c, k>>
                  /\ get_tags(Collected(c)[k]) = LabelsOf(decor[<<c, k>>])
    /\ entry = "filter" =>
           \A c \in started :
               LET keep == {k \in 1..Len(Collected(c)) : Holds(cond, LabelsOf(decor[<<c, k>>]))}
               IN  /\ Len(selected) = Cardinality(keep)
                   /\ \A n \in 1..Len(selected) :
                          \E k \in keep : /\ selected[n] = Collected(c)[k]
                                          /\ Cardinality({j \in keep : j < k}) = n - 1

C24_Witness ==
    /\ entry = "filter"
    /\ cond = "multi"
    /\ started = {1}
    /\ Len(decor[<<1, 2>>]) = 2
    /\ Len(selected) = 1
    /\ selected[1].test_name = "test_2"
    /\ get_tags(selected[1]) = {"Skip", ":("}

\* ------------------------------------------------ properties of asserts
\* C26 as stated: inside an assert_many context a failing assertion is
\* collected and not raised where it is made; a context whose body ends
\* raises nothing when its body collected nothing, the AssertionError itself
\* when it collected one, one ExceptionGroup holding all of them when it
\* collected more; and with no context open the module raises at once and
\* its collection is empty.
C26_AssertMany ==
    /\ contexts # <<>> => ~throw
    /\ flying.site = "call" /\ flying.kind = "AssertionError" => flying.depth = 0
    /\ lastExit.how = "end" =>
           /\ Len(lastExit.own) = 0 => lastExit.raised = NoException
           /\ Len(lastExit.own) = 1 =>
                  /\ lastExit.raised.kind = "AssertionError"
                  /\ lastExit.raised.held = lastExit.own
           /\ Len(lastExit.own) > 1 =>
                  /\ lastExit.raised.kind = "ExceptionGroup"
                  /\ lastExit.raised.held = lastExit.own
    /\ contexts = <<>> => (throw /\ exceptions = <<>>)

\* ------------------------------------------------- properties of Logger
\* C27 as stated: on an enabled logger, a separate() that follows another
\* separate() with no write in between emits nothing, whatever its
\* multiplier, unless forced=True is passed; with forced=True it always
\* emits; the first separate() and a separate() that follows a write emit.
C27_SeparateIdempotent ==
    (enabled /\ lastCall.op = "separate") =>
        /\ (lastCall.quiet /\ lastCall.forced # "true") => ~lastCall.emitted
        /\ lastCall.forced = "true" => lastCall.emitted
        /\ ~lastCall.quiet => lastCall.emitted

\* --------------------------------------- properties of failure location
\* The frames of the traceback that carry the name of the test function.
Named == {k \in 1..Len(tb) : tb[k].name = fname}

\* C25: the frame whose position is recorded is the outermost frame of the
\* traceback whose function name is the name of the test function; it is
\* the innermost frame of the traceback only when no frame has that name.
C25_FailureLocation ==
    located # 0 =>
        /\ Named # {} => (located \in Named /\ \A k \in Named : located <= k)
        /\ Named = {} => located = Len(tb)
        /\ tb[located].lineno = located

C25_Witness ==
    /\ located = 3
    /\ Cardinality(Named) = 2
    /\ Len(tb) = MaxFrames
    /\ tb[2].name = "wrapper"
    /\ fname = "test_a"

====
